---- MODULE Spec2Model ----
(***************************************************************************)
(* Model of the dynamic comment pagination engine of XHS-Downloader        *)
(* (src/dynamic_comment_extractor.py): DynamicCommentExtractor             *)
(* .extract_comments -> .extract_comments_with_browser ->                  *)
(* .get_all_comments_with_pagination, with the state extraction and the    *)
(* "has more" check the loop relies on.                                    *)
(*                                                                         *)
(* Environments that drive the loop:                                       *)
(*   Spec       the page returns an arbitrary snapshot at every iteration  *)
(*              and any awaited call may raise;                            *)
(*   SpecPaged  the page is a well-behaved site that holds N distinct      *)
(*              comments and reveals them page by page on load-more;       *)
(*   SpecNorm   one page whose records name their id and their time in     *)
(*              every form the code reads;                                 *)
(*   SpecRun    extract_comments from the URL through the cookie checks    *)
(*              to the result.                                             *)
(* SpecSession is the CookieManager (src/cookie_manager.py) of one         *)
(* process: its cache file, the TTL cache around _load_cached_cookie,      *)
(* get_cookie_automatically with its retry wrapper, and clear_cache.       *)
(***************************************************************************)
EXTENDS Integers, Sequences, FiniteSets, TLC

VARIABLES
    pc,                  \* position of the run: "start", "loop", "paginated", "browsed", "done"
    max_comments,        \* self.max_comments: None or a positive int
    page_count,          \* page_count of get_all_comments_with_pagination
    all_comments,        \* all_comments of get_all_comments_with_pagination
    reason,              \* which exit of the while loop was taken ("" while running)
    load_more_calls,     \* number of calls of load_more_comments in this run
    snap,                \* the snapshot captured by the latest iteration
    repeated,            \* the latest iteration captured the same snapshot as the one before it
    raw_comments,        \* raw_comments of extract_comments (what the browser step returned)
    normalized_comments, \* normalized_comments of extract_comments
    result,              \* what extract_comments returned: "pending", "True" or "False"
    src,                 \* the site behind the page (SpecPaged), NoSource under Spec
    note_url,            \* note_url of extract_comments, as a sequence of URL pieces
    ensure_calls,        \* number of calls of ensure_cookie in this run
    cookies_ok,          \* how many of them returned True
    navigations,         \* number of browser sessions that went to the note's page
    callbacks,           \* number of invocations of progress_callback
    now,                 \* the wall clock, in ticks of TickHours hours
    cookie_file,         \* cookie_cache.json of the CookieManager
    memo,                \* the entry of the TTL cache around _load_cached_cookie
    cleared,             \* clear_cache ran and get_cookie_automatically has not run since
    last,                \* what the latest get_cookie_automatically did and returned,
                         \* and how many ticks before the cookie it returned was saved
    args,                \* the arguments and the environment of a function called on its own
    ret                  \* what that call returned and did

\* the variables of the run besides those of the loop and of the result
runVars == <<note_url, ensure_calls, cookies_ok, navigations>>

\* the variables of the CookieManager
sessionVars == <<now, cookie_file, memo, cleared, last>>

\* the variables of a function called on its own
callVars == <<args, ret>>

vars == <<pc, max_comments, page_count, all_comments, reason, load_more_calls,
          snap, repeated, raw_comments, normalized_comments, result, src,
          runVars, callbacks, sessionVars, callVars>>

(* ------------------------------ constants ------------------------------ *)

\* max_pages = 50 in get_all_comments_with_pagination
max_pages == 50

\* Python None as the value of self.max_comments (no int the callers pass)
None == -1

\* value of comment.get('id', '') for a record that carries no id: the empty
\* string (strings are numbered, 0 is '')
NoId == 0

\* a non-empty comment text
SomeText == 1

\* time.time() of the run in seconds: 10:00:00 of the epoch's first day
NowSec == 36000

\* the factor between seconds and milliseconds (timestamp() * 1000)
MsPerSec == 1000

\* seconds in an hour (timedelta(hours=...))
SecPerHour == 3600

\* hours in a tick of the clock of the CookieManager
TickHours == 12

\* cached_with_ttl(ttl=86400) around _load_cached_cookie, in hours
memo_ttl_hours == 24

\* timedelta(hours=24) of _load_cached_cookie
max_age_hours == 24

\* RetryConfig(max_attempts=2) of get_cookie_automatically
max_attempts == 2

\* max_wait_time of _interactive_cookie_acquisition, in seconds
max_wait_time == 300

\* check_interval of _interactive_cookie_acquisition, in seconds
check_interval == 5

(* -------------------------------- bounds ------------------------------- *)

\* largest real comment id the arbitrary page can show
MaxId == 1
\* longest comment list of one arbitrary snapshot
MaxBatch == 2
\* largest ordinary quota tried (the quota max_pages + 1 is tried as well)
MaxQuota == 3
\* largest page size of the paged site
MaxPageSize == 2
\* largest small page count of the paged site (max_pages and max_pages + 1 are tried as well)
MaxPagesSmall == 3
\* number of DOM elements the DOM fallback can find
MaxDom == 1
\* most records on the page of SpecNorm
MaxNormBatch == 2
\* oldest comment of SpecNorm, in hours before the run
MaxHoursAgo == 2
\* most pieces in a URL of SpecRun
MaxUrlLen == 3
\* SpecSession: the clock runs from 0 to MaxClock ticks
MaxClock == 4
\* SpecSession: number of distinct cookies
MaxCookie == 1
\* SpecRetry: largest max_attempts of a retry configuration
MaxRetryAttempts == 7

\* images of one comment, comments saved by one run, distinct nicknames
MaxImages == 2
MaxSaved == 2
MaxNickname == 2

\* levels of nesting above a comment record, elements of the target's list
MaxNest == 7
MaxListed == 2

(* ------------------------------- helpers ------------------------------- *)

Min(a, b) == IF a < b THEN a ELSE b
Max(a, b) == IF a > b THEN a ELSE b

SeqsUpTo(S, n) == UNION {[1..k -> S] : k \in 0..n}

\* Python truthiness of self.max_comments (None and 0 are falsy)
Truthy(q) == q # None /\ q # 0

\* Python slice s[:n]
PySlice(s, n) ==
    IF n >= 0 THEN SubSeq(s, 1, Min(n, Len(s)))
    ELSE SubSeq(s, 1, Max(Len(s) + n, 0))

\* dict.get(k, default) on a dict modelled as a function of its keys
Get(d, k, default) == IF k \in DOMAIN d THEN d[k] ELSE default

\* a Python int and a Python str as the value of a time field; a str is one of
\*   "hours"  '<v>小时前'                 "iso"  '1970-01-01T<v/3600>:00:00+00:00'
\*   "num"    the decimal digits of v     "bad"  a text parse_time_string cannot read
IntTime(n) == [k |-> "int", v |-> n]
StrTime(f, n) == [k |-> "str", f |-> f, v |-> n]

\* int(time.time() * 1000)
now_ms == IntTime(NowSec * MsPerSec)

\* parse_time_string: relative and ISO texts become epoch milliseconds, a text
\* of digits becomes the number it spells, anything else the current time
parse_time_string(t) ==
    CASE t.f = "hours" -> IntTime((NowSec - t.v * SecPerHour) * MsPerSec)
      [] t.f = "iso"   -> IntTime(t.v * MsPerSec)
      [] t.f = "num"   -> IntTime(t.v)
      [] OTHER         -> now_ms

\* {comment.get('id', '') for comment in comments}
IdsOf(comments) == {Get(comments[i], "id", NoId) : i \in DOMAIN comments}

(* ------------------------------ snapshots ------------------------------ *)

\* a raw comment record of the page state with a text and no time field;
\* id = NoId when the id is empty
RawComments == [id : {NoId} \cup (1..MaxId), content : {SomeText}]

\* window.__INITIAL_STATE__ as the loop reads it:
\*   null      page.evaluate returned null
\*   hasTarget note_id in note.noteDetailMap
\*   list      noteDetailMap[note_id].comments.list
\*   hasMore   noteDetailMap[note_id].comments.hasMore
\*   loading   noteDetailMap[note_id].comments.loading
\*   rec       what recursive_search_comments finds in the whole state
NullState ==
    [null |-> TRUE, hasTarget |-> FALSE, list |-> <<>>, hasMore |-> FALSE,
     loading |-> FALSE, rec |-> <<>>]

\* no snapshot captured (before the first iteration, or page.evaluate raised)
NoSnapshot == [none |-> TRUE]

Snapshots ==
    {NullState}
    \cup {[null |-> FALSE, hasTarget |-> FALSE, list |-> <<>>, hasMore |-> FALSE,
           loading |-> FALSE, rec |-> r] : r \in SeqsUpTo(RawComments, 1)}
    \cup {[null |-> FALSE, hasTarget |-> TRUE, list |-> l, hasMore |-> h,
           loading |-> g, rec |-> <<>>] :
              l \in SeqsUpTo(RawComments, MaxBatch) \ {<<>>}, h \in BOOLEAN, g \in BOOLEAN}
    \cup {[null |-> FALSE, hasTarget |-> TRUE, list |-> <<>>, hasMore |-> h,
           loading |-> g, rec |-> r] :
              h \in BOOLEAN, g \in BOOLEAN, r \in SeqsUpTo(RawComments, 1)}

\* process_raw_comment: the id, text, time and images of the processed record
\*   comment_id = raw_comment.get('id', '')
\*   create_time = raw_comment.get('createTime', raw_comment.get('create_time', 0));
\*   a str is parsed, 0 is replaced by the field time or timestamp or the current
\*   time, any other number is kept as it is
process_raw_comment(raw) ==
    LET create_time == Get(raw, "createTime", Get(raw, "create_time", IntTime(0)))
    IN  [id          |-> Get(raw, "id", NoId),
         content     |-> Get(raw, "content", 0),
         create_time |-> IF create_time.k = "str" THEN parse_time_string(create_time)
                         ELSE IF create_time = IntTime(0)
                         THEN Get(raw, "time", Get(raw, "timestamp", now_ms))
                         ELSE create_time,
         images      |-> Get(raw, "pictures", Get(raw, "images", Get(raw, "pics", 0)))]

\* comment_indicators of looks_like_comment_data
comment_indicators ==
    {"content", "text", "body", "user", "author", "user_info",
     "create_time", "time", "timestamp", "created_at", "id", "comment_id", "cid"}

\* looks_like_comment_data: at least 2 of the indicator keys are present
looks_like_comment_data(data) == Cardinality(DOMAIN data \cap comment_indicators) >= 2

\* recursive_search_comments over the dict items it visits: those that look
\* like a comment, as they are
recursive_search_comments(items) == SelectSeq(items, looks_like_comment_data)

\* extract_comments_from_state: the primary list when the target is present and
\* its list non-empty, else whatever the recursive search finds
extract_comments_from_state(st) ==
    LET primary ==
            IF st.hasTarget /\ st.list # <<>>
            THEN [i \in DOMAIN st.list |-> process_raw_comment(st.list[i])]
            ELSE <<>>
    IN  IF primary = <<>> THEN recursive_search_comments(st.rec) ELSE primary

\* check_has_more_comments answering True when the target is missing
check_has_more_comments_without_target(st) ==
    IF st.hasTarget THEN st.hasMore /\ ~st.loading ELSE TRUE

\* check_has_more_comments with the loading test inverted
check_has_more_comments_while_loading(st) ==
    IF st.hasTarget THEN st.hasMore /\ st.loading ELSE FALSE

\* check_has_more_comments: has_more and not loading, False without the target
check_has_more_comments(st) ==
    IF st.hasTarget THEN st.hasMore /\ ~st.loading ELSE FALSE

(* ------------------- get_all_comments_with_pagination ------------------ *)

\* the loop condition off by one
loop_condition_inclusive(n) == n <= max_pages

\* while page_count < max_pages
loop_condition(n) == n < max_pages

\* the id filter left out
filter_new_comments_unfiltered(current_comments, collected) == current_comments

\* new_comments = [c for c in current_comments if c.get('id', '') not in existing_ids]
filter_new_comments(current_comments, collected) ==
    LET existing_ids == IdsOf(collected)
    IN  SelectSeq(current_comments, LAMBDA c : Get(c, "id", NoId) \notin existing_ids)

\* the truncation to the quota left out
limit_new_comments_untruncated(new_comments, collected, q) == new_comments

\* if self.max_comments and len(all_comments) + len(new_comments) > self.max_comments:
\*     new_comments = new_comments[:self.max_comments - len(all_comments)]
limit_new_comments(new_comments, collected, q) ==
    IF Truthy(q) /\ Len(collected) + Len(new_comments) > q
    THEN PySlice(new_comments, q - Len(collected))
    ELSE new_comments

\* the quota test with > for >=
quota_reached_strict(collected, q) == Truthy(q) /\ Len(collected) > q

\* if self.max_comments and len(all_comments) >= self.max_comments: break
quota_reached(collected, q) == Truthy(q) /\ Len(collected) >= q

\* an except branch that gives up what was collected
on_page_error_discarding(collected) == <<>>

\* the except branch of the loop body: both arms break and keep all_comments
on_page_error(collected) == collected

\* One pass through the body of the while loop on snapshot st, starting from
\* the collected list; raises names the statement that raises, if any.
\* The outcome is the collected list after the pass, the exit taken
\* ("" when the body ran to its end) and whether load_more_comments was called.
loop_body(collected, q, st, raises) ==
    IF raises = "evaluate"
    THEN [all |-> on_page_error(collected), exit |-> "error", loaded |-> FALSE]
    ELSE IF st.null
    THEN [all |-> collected, exit |-> "no_state", loaded |-> FALSE]
    ELSE
      LET current_comments == extract_comments_from_state(st)
          new_comments     == filter_new_comments(current_comments, collected)
          limited          == limit_new_comments(new_comments, collected, q)
          extended         == collected \o limited
          has_more         == check_has_more_comments(st)
          tail(c)          ==
              IF ~has_more
              THEN [all |-> c, exit |-> "exhausted", loaded |-> FALSE]
              ELSE [all |-> c, exit |-> "", loaded |-> TRUE]
      IN  IF current_comments # <<>>
          THEN IF raises = "filter"
               THEN [all |-> on_page_error(collected), exit |-> "error", loaded |-> FALSE]
               ELSE IF new_comments # <<>>
               THEN IF quota_reached(extended, q)
                    THEN [all |-> extended, exit |-> "quota", loaded |-> FALSE]
                    ELSE tail(extended)
               ELSE [all |-> collected, exit |-> "no_progress", loaded |-> FALSE]
          ELSE tail(collected)

\* the statements that can raise inside the try of the loop body
RaisePoints == {"none", "evaluate", "filter"}

\* The effect of one iteration on the run: page_count += 1, the body, and the
\* loop condition that follows a body that ran to its end.
Iterate(st, raises) ==
    LET out == loop_body(all_comments, max_comments, st, raises)
        n   == page_count + 1
    IN  /\ pc = "loop"
        /\ page_count' = n
        /\ all_comments' = out.all
        /\ load_more_calls' = load_more_calls + (IF out.loaded THEN 1 ELSE 0)
        /\ snap' = IF raises = "evaluate" THEN NoSnapshot ELSE st
        /\ repeated' = (raises # "evaluate" /\ st = snap)
        /\ IF out.exit # ""
           THEN pc' = "paginated" /\ reason' = out.exit
           ELSE IF loop_condition(n)
           THEN pc' = "loop" /\ reason' = ""
           ELSE pc' = "paginated" /\ reason' = "max_iterations"
        /\ UNCHANGED <<max_comments, raw_comments, normalized_comments, result,
                       runVars, callbacks, sessionVars, callVars>>

\* an iteration against a page that may show anything and may fail
Iteration ==
    /\ pc = "loop"
    /\ \E st \in Snapshots, raises \in RaisePoints : Iterate(st, raises)
    /\ UNCHANGED src

(* ------------- extract_comments / extract_comments_with_browser -------- *)

\* id of the demo comment extract_comments substitutes for an empty result
DemoId == -2
\* id of the i-th comment scraped from the DOM ('dom_comment_<i>')
DomId(i) == -(10 + i)

\* id synthesized by normalize_comment_data at position i ('comment_<i>')
SynthId(i) == -(100 + i)

\* extract_comments_from_dom: one low-fidelity record per matching element
extract_comments_from_dom(n) ==
    [i \in 1..n |-> [id |-> DomId(i - 1), content |-> SomeText, create_time |-> now_ms]]

\* one record of normalize_comment_data, n records being kept so far
normalize_comment(comment, n) ==
    [id          |-> Get(comment, "id", Get(comment, "comment_id", SynthId(n))),
     content     |-> Get(comment, "content", Get(comment, "text", Get(comment, "body", 0))),
     create_time |-> Get(comment, "create_time",
                         Get(comment, "time", Get(comment, "timestamp", IntTime(0)))),
     images      |-> Get(comment, "images", Get(comment, "pics", Get(comment, "pictures", 0)))]

\* normalize_comment_data: the records in order, those with neither text nor
\* images left out
RECURSIVE normalize_from(_, _, _)
normalize_from(comments, i, normalized) ==
    IF i > Len(comments) THEN normalized
    ELSE LET c == normalize_comment(comments[i], Len(normalized))
         IN  normalize_from(comments, i + 1,
                 IF c.content # 0 \/ c.images # 0 THEN Append(normalized, c) ELSE normalized)

normalize_comment_data(comments) == normalize_from(comments, 1, <<>>)

\* key=lambda x: x.get('create_time', 0)
sort_key(comment) == Get(comment, "create_time", IntTime(0))

\* Python compares int with int and str with str; any other pair raises TypeError
comparable(a, b) == a.k = b.k

\* the place of a time text in the order of Python strings, by its first
\* character, then its next four, then the rest: a digit text of five digits
\* 'dxxxx', '1970-01-01T..' (its '-' sorts below every digit), '<h>小时前' with one
\* digit (its '小' sorts above every digit), and a text that starts with no digit
str_order(t) ==
    CASE t.f = "num"   -> <<t.v \div 10000, 2 * t.v, 0>>
      [] t.f = "iso"   -> <<1, 2 * 19700 - 1, t.v>>
      [] t.f = "hours" -> <<t.v, 2 * 100000, 0>>
      [] OTHER         -> <<10, 0, 0>>

\* a < b on two comparable keys
key_less(a, b) ==
    IF a.k = "int" THEN a.v < b.v
    ELSE LET x == str_order(a)
             y == str_order(b)
         IN  \/ x[1] < y[1]
             \/ x[1] = y[1] /\ x[2] < y[2]
             \/ x[1] = y[1] /\ x[2] = y[2] /\ x[3] < y[3]

\* list.sort raises when two keys of the list cannot be compared
sort_raises(comments) ==
    \E i, j \in DOMAIN comments : ~comparable(sort_key(comments[i]), sort_key(comments[j]))

\* comment placed into a list sorted largest key first, behind the records whose
\* key is not smaller (the sort is stable)
RECURSIVE insert_sorted(_, _)
insert_sorted(sorted, comment) ==
    IF sorted = <<>> THEN <<comment>>
    ELSE IF key_less(sort_key(Head(sorted)), sort_key(comment))
    THEN <<comment>> \o sorted
    ELSE <<Head(sorted)>> \o insert_sorted(Tail(sorted), comment)

\* normalized_comments.sort(key=..., reverse=True)
RECURSIVE sort_from(_, _, _)
sort_from(comments, i, sorted) ==
    IF i > Len(comments) THEN sorted
    ELSE sort_from(comments, i + 1, insert_sorted(sorted, comments[i]))

sort_newest_first(comments) == sort_from(comments, 1, <<>>)

\* demo_comments of extract_comments
demo_comments ==
    <<[id |-> DemoId, content |-> SomeText, create_time |-> now_ms, images |-> 0]>>

\* How the part of the run that precedes the pagination loop can end:
\*   invalid_url    extract_note_id matched no pattern: return False
\*   setup_error    an exception outside the browser try: return False
\*   browser_error  an exception inside the browser try before the loop:
\*                  extract_comments_with_browser returns its empty list
\*   page_blocked   the page title or URL marks an error page: return comments
\*   ok             get_all_comments_with_pagination is entered
BeginOutcomes == {"invalid_url", "setup_error", "browser_error", "page_blocked", "ok"}

Begin(outcome) ==
    /\ pc = "start"
    /\ CASE outcome \in {"invalid_url", "setup_error"} ->
              pc' = "done" /\ result' = "False" /\ UNCHANGED raw_comments
         [] outcome \in {"browser_error", "page_blocked"} ->
              pc' = "browsed" /\ raw_comments' = <<>> /\ UNCHANGED result
         [] OTHER ->
              pc' = "loop" /\ UNCHANGED <<raw_comments, result>>
    /\ UNCHANGED <<max_comments, page_count, all_comments, reason, load_more_calls,
                   snap, repeated, normalized_comments, runVars, callbacks, sessionVars, callVars>>

ExtractCommentsBegin ==
    /\ \E outcome \in BeginOutcomes : Begin(outcome)
    /\ UNCHANGED src

\* lines 419-437: the loop's list, or the DOM scrape when that list is empty;
\* the loop's snapshot goes out of scope
DomFallback ==
    /\ pc = "paginated"
    /\ \E n \in 0..MaxDom :
          raw_comments' = IF all_comments = <<>>
                          THEN extract_comments_from_dom(n)
                          ELSE all_comments
    /\ pc' = "browsed"
    /\ snap' = NoSnapshot
    /\ UNCHANGED <<max_comments, page_count, all_comments, reason, load_more_calls,
                   repeated, normalized_comments, result, src, runVars, callbacks,
                   sessionVars, callVars>>

\* lines 1469-1556: normalise, substitute the demo comment for an empty list,
\* sort newest first, save each comment (a save that succeeds invokes the
\* progress callback, one that fails is skipped) and return True; a sort that
\* raises, or an exception while saving the report, returns False
ExtractCommentsFinish ==
    /\ pc = "browsed"
    /\ LET normalized == normalize_comment_data(raw_comments)
           kept == IF normalized = <<>> THEN demo_comments ELSE normalized
       IN  IF sort_raises(kept)
           THEN normalized_comments' = kept /\ result' = "False" /\ UNCHANGED callbacks
           ELSE /\ normalized_comments' = sort_newest_first(kept)
                /\ \E saved \in 0..Len(kept) : callbacks' = callbacks + saved
                /\ \E raises \in BOOLEAN : result' = IF raises THEN "False" ELSE "True"
    /\ pc' = "done"
    /\ UNCHANGED <<max_comments, page_count, all_comments, reason, load_more_calls,
                   snap, repeated, raw_comments, src, runVars, sessionVars, callVars>>

(* --------------------- Spec: an arbitrary, failing page ----------------- *)

\* the site holds nothing (Spec does not use it)
NoSource == [k |-> 0, size |-> 0, last |-> 0, cumulative |-> FALSE, served |-> 0]

\* quotas the callers pass: None, or the UI's number_input with min_value=1
Quotas == {None} \cup (1..MaxQuota)

\* no cookie_cache.json
NoFile == [exists |-> FALSE, cookie |-> 0, saved |-> 0]

\* no entry in the TTL cache
NoMemo == [present |-> FALSE, value |-> 0, set_at |-> 0, saved |-> 0]

\* get_cookie_automatically has not run
NoAcquire == [cookie |-> 0, is_new |-> FALSE, tried |-> <<>>, age |-> 0,
              after_clear |-> FALSE]

\* the CookieManager of a fresh process with no cache file
InitSession(files) ==
    /\ now = 0
    /\ cookie_file \in files
    /\ memo = NoMemo
    /\ cleared = FALSE
    /\ last = NoAcquire

\* no call yet
NoRet == [done |-> FALSE]

\* a function is about to be called with one of the inputs
InitCall(inputs) ==
    /\ args \in inputs
    /\ ret = NoRet

\* no function is called on its own
NoArgs == [none |-> TRUE]

\* the counters of a run that has not begun
InitRun(urls) ==
    /\ note_url \in urls
    /\ ensure_calls = 0
    /\ cookies_ok = 0
    /\ navigations = 0
    /\ callbacks = 0

InitLoop(Q, S) ==
    /\ pc = "start"
    /\ max_comments \in Q
    /\ page_count = 0
    /\ all_comments = <<>>
    /\ reason = ""
    /\ load_more_calls = 0
    /\ snap = NoSnapshot
    /\ repeated = FALSE
    /\ raw_comments = <<>>
    /\ normalized_comments = <<>>
    /\ result = "pending"
    /\ src \in S

\* a run whose URL and CookieManager stay out of the picture
InitWith(Q, S) ==
    /\ InitLoop(Q, S)
    /\ InitRun({<<>>})
    /\ InitSession({NoFile})
    /\ InitCall({NoArgs})

Init == InitWith(Quotas, {NoSource})

Next ==
    \/ ExtractCommentsBegin
    \/ Iteration
    \/ DomFallback
    \/ ExtractCommentsFinish

Spec == Init /\ [][Next]_vars

(* ---------------- SpecPaged: a site that serves pages ------------------ *)

\* The site holds k pages of `size` comments, the last page holding `last`;
\* comments are numbered 1, 2, ... in the order the site reveals them.
\* `served` pages have been revealed so far; `cumulative` tells whether the
\* comment list of the page state accumulates the pages or holds the latest one.
PageCounts == (1..MaxPagesSmall) \cup {max_pages, max_pages + 1}

Sources ==
    {[k |-> k, size |-> z, last |-> l, cumulative |-> c, served |-> 0] :
        k \in PageCounts, z \in 1..MaxPageSize, l \in 1..MaxPageSize, c \in BOOLEAN}

\* ordinary quotas and the first quota that max_pages pages of one comment cannot fill
QuotasPaged == Quotas \cup {max_pages + 1}

\* number of comments on the first n pages of site s
Revealed(s, n) ==
    IF n <= 0 THEN 0
    ELSE IF n >= s.k THEN (s.k - 1) * s.size + Min(s.last, s.size)
    ELSE n * s.size

\* number of comments the site holds
Total(s) == Revealed(s, s.k)

\* the page state the site shows after `served` pages: never mid-load,
\* hasMore true on every page but the last
SiteSnapshot(s) ==
    LET from == IF s.cumulative THEN 1 ELSE Revealed(s, s.served - 1) + 1
        to   == Revealed(s, s.served)
    IN  [null |-> FALSE, hasTarget |-> TRUE,
         list |-> [i \in 1..(to - from + 1) |-> [id |-> from + i - 1, content |-> SomeText]],
         hasMore |-> s.served < s.k, loading |-> FALSE, rec |-> <<>>]

\* the run reaches the loop with the first page revealed
BeginPaged ==
    /\ Begin("ok")
    /\ src' = [src EXCEPT !.served = 1]

\* an iteration against the site; load-more makes the site reveal its next page
IterationPaged ==
    /\ Iterate(SiteSnapshot(src), "none")
    /\ src' = IF load_more_calls' > load_more_calls
              THEN [src EXCEPT !.served = Min(@ + 1, src.k)]
              ELSE src

InitPaged == InitWith(QuotasPaged, Sources)

NextPaged ==
    \/ BeginPaged
    \/ IterationPaged
    \/ DomFallback
    \/ ExtractCommentsFinish

SpecPaged == InitPaged /\ [][NextPaged]_vars

(* ------------- SpecNorm: one page of records of every form -------------- *)

\* how a raw record of the page names its id (its value is the record's position
\* on the page): under id, commentId or cid, as an empty id, or not at all
IdForms == {"id", "commentId", "cid", "empty", "none"}

\* how a raw record carries its creation time, h hours before the run:
\*   sec, ms          createTime as epoch seconds / epoch milliseconds
\*   hours, iso, num  createTime as '<h>小时前', as an ISO text, as a text of digits
\*   bad              createTime as a text no rule reads
\*   snake_ms         create_time as epoch milliseconds
\*   time_sec         no createTime; time as epoch seconds
\*   timestamp_hours  no createTime; timestamp as '<h>小时前'
\*   none             no time field
TimeForms ==
    {"sec", "ms", "hours", "iso", "num", "bad", "snake_ms", "time_sec",
     "timestamp_hours", "none"}

\* the ages of the comments of the page, in hours
Ages == 1..MaxHoursAgo

IdPart(i, f) ==
    CASE f = "id"        -> [id |-> i]
      [] f = "commentId" -> [commentId |-> i]
      [] f = "cid"       -> [cid |-> i]
      [] f = "empty"     -> [id |-> NoId]
      [] OTHER           -> [content |-> SomeText]

TimePart(f, h) ==
    LET sec == NowSec - h * SecPerHour
    IN  CASE f = "sec"             -> [createTime |-> IntTime(sec)]
          [] f = "ms"              -> [createTime |-> IntTime(sec * MsPerSec)]
          [] f = "hours"           -> [createTime |-> StrTime("hours", h)]
          [] f = "iso"             -> [createTime |-> StrTime("iso", sec)]
          [] f = "num"             -> [createTime |-> StrTime("num", sec)]
          [] f = "bad"             -> [createTime |-> StrTime("bad", 0)]
          [] f = "snake_ms"        -> [create_time |-> IntTime(sec * MsPerSec)]
          [] f = "time_sec"        -> [time |-> IntTime(sec)]
          [] f = "timestamp_hours" -> [timestamp |-> StrTime("hours", h)]
          [] OTHER                 -> [content |-> SomeText]

\* the raw record at position i of the page: a dict with a text
RawRecord(i, idForm, timeForm, h) ==
    IdPart(i, idForm) @@ TimePart(timeForm, h) @@ [content |-> SomeText]

\* the pages: 1..MaxNormBatch records, under the note's comment list or
\* elsewhere in the state, with nothing more to load
RawPages ==
    UNION {[1..n -> IdForms \X TimeForms \X Ages] : n \in 1..MaxNormBatch}

SnapshotOfPage(page, primary) ==
    LET records == [i \in DOMAIN page |-> RawRecord(i, page[i][1], page[i][2], page[i][3])]
    IN  [null |-> FALSE, hasTarget |-> primary,
         list |-> IF primary THEN records ELSE <<>>,
         hasMore |-> FALSE, loading |-> FALSE,
         rec |-> IF primary THEN <<>> ELSE records]

BeginNorm ==
    /\ Begin("ok")
    /\ UNCHANGED src

IterationNorm ==
    /\ pc = "loop"
    /\ \E page \in RawPages, primary \in BOOLEAN :
          Iterate(SnapshotOfPage(page, primary), "none")
    /\ UNCHANGED src

NextNorm ==
    \/ BeginNorm
    \/ IterationNorm
    \/ DomFallback
    \/ ExtractCommentsFinish

SpecNorm == Init /\ [][NextNorm]_vars

(* --------- SpecRun: extract_comments from the URL to the result -------- *)

\* the pieces a URL is made of: the three path prefixes of the patterns, a hex
\* digit, and any other character
UrlPieces == {"explore/", "discovery/", "item/", "h", "x"}

\* the URLs of at most MaxUrlLen pieces
Urls == SeqsUpTo(UrlPieces, MaxUrlLen)

\* patterns of extract_note_id, each followed by ([a-fA-F0-9]+)
patterns == << <<"explore/">>, <<"discovery/", "item/">>, <<"item/">> >>

\* pattern matches url at position p: its prefix, then at least one hex digit
matches_at(pattern, url, p) ==
    /\ p + Len(pattern) <= Len(url)
    /\ SubSeq(url, p, p + Len(pattern) - 1) = pattern
    /\ url[p + Len(pattern)] = "h"

\* the hex digits of url from position p on: group(1), as its length
RECURSIVE hex_run(_, _)
hex_run(url, p) ==
    IF p <= Len(url) /\ url[p] = "h" THEN 1 + hex_run(url, p + 1) ELSE 0

\* re.search(pattern, url): group(1) of the leftmost match, or None
re_search(pattern, url) ==
    LET found == {p \in 1..Len(url) : matches_at(pattern, url, p)}
    IN  IF found = {} THEN None
        ELSE hex_run(url, Len(pattern) + CHOOSE p \in found : \A r \in found : p <= r)

\* extract_note_id with an id made up for a URL that matches no pattern
RECURSIVE extract_note_id_from_default(_, _)
extract_note_id_from_default(url, i) ==
    IF i > Len(patterns) THEN 1
    ELSE IF re_search(patterns[i], url) # None THEN re_search(patterns[i], url)
    ELSE extract_note_id_from_default(url, i + 1)

\* the for loop of extract_note_id from pattern i on
RECURSIVE extract_note_id_from(_, _)
extract_note_id_from(url, i) ==
    IF i > Len(patterns) THEN None
    ELSE IF re_search(patterns[i], url) # None THEN re_search(patterns[i], url)
    ELSE extract_note_id_from(url, i + 1)

extract_note_id(url) == extract_note_id_from(url, 1)

\* a failed cookie check that ends the run
after_cookie_check_fatal(cookie_valid) ==
    IF cookie_valid THEN [pc |-> "note_info", result |-> "pending"]
    ELSE [pc |-> "done", result |-> "False"]

\* lines 1436-1438: a failed cookie check prints a warning, the run goes on
after_cookie_check(cookie_valid) == [pc |-> "note_info", result |-> "pending"]

\* one call of ensure_cookie that returned cookie_valid
EnsureCookie(cookie_valid) ==
    /\ ensure_calls' = ensure_calls + 1
    /\ cookies_ok' = cookies_ok + (IF cookie_valid THEN 1 ELSE 0)

\* lines 1421-1426: no note id in the URL, return False
ExtractNoteId ==
    /\ pc = "start"
    /\ LET note_id == extract_note_id(note_url)
       IN  IF note_id = None \/ note_id = 0
           THEN pc' = "done" /\ result' = "False"
           ELSE pc' = "cookie" /\ UNCHANGED result
    /\ UNCHANGED <<max_comments, page_count, all_comments, reason, load_more_calls,
                   snap, repeated, raw_comments, normalized_comments, src, runVars,
                   callbacks, sessionVars, callVars>>

\* lines 1434-1438: the cookie check of extract_comments
CheckCookie ==
    /\ pc = "cookie"
    /\ \E cookie_valid \in BOOLEAN :
          /\ EnsureCookie(cookie_valid)
          /\ pc' = after_cookie_check(cookie_valid).pc
          /\ result' = after_cookie_check(cookie_valid).result
    /\ UNCHANGED <<max_comments, page_count, all_comments, reason, load_more_calls,
                   snap, repeated, raw_comments, normalized_comments, src, note_url,
                   navigations, callbacks, sessionVars, callVars>>

\* lines 1440-1463: get_note_info_with_xhs checks the cookie again and opens the
\* page in a browser of its own (a browser that fails to start opens nothing),
\* then the work folder and the note's file are written (raising returns False)
GetNoteInfo ==
    /\ pc = "note_info"
    /\ \E cookie_valid \in BOOLEAN : EnsureCookie(cookie_valid)
    /\ \E opened \in BOOLEAN : navigations' = navigations + (IF opened THEN 1 ELSE 0)
    /\ \E raises \in BOOLEAN :
          IF raises THEN pc' = "done" /\ result' = "False"
          ELSE pc' = "browser" /\ UNCHANGED result
    /\ UNCHANGED <<max_comments, page_count, all_comments, reason, load_more_calls,
                   snap, repeated, raw_comments, normalized_comments, src, note_url,
                   callbacks, sessionVars, callVars>>

\* lines 271-419 of extract_comments_with_browser: the cookie check (a failure
\* prints a warning), the browser and the page, up to the pagination loop
OpenBrowser ==
    /\ pc = "browser"
    /\ \E cookie_valid \in BOOLEAN : EnsureCookie(cookie_valid)
    /\ \E outcome \in {"browser_error", "page_blocked", "ok"} :
          /\ \E opened \in BOOLEAN :
                /\ outcome # "browser_error" => opened
                /\ navigations' = navigations + (IF opened THEN 1 ELSE 0)
          /\ IF outcome = "ok"
             THEN pc' = "loop" /\ UNCHANGED raw_comments
             ELSE pc' = "browsed" /\ raw_comments' = <<>>
    /\ UNCHANGED <<max_comments, page_count, all_comments, reason, load_more_calls,
                   snap, repeated, normalized_comments, result, src, note_url,
                   callbacks, sessionVars, callVars>>

\* the pages of SpecRun: an unreadable state, or at most one comment under the
\* note's list, with more to load only behind a comment
SnapshotsRun ==
    {st \in Snapshots :
        /\ Len(st.list) <= 1 /\ st.rec = <<>> /\ ~st.loading
        /\ st.hasMore => st.list # <<>>}

IterationRun ==
    /\ pc = "loop"
    /\ \E st \in SnapshotsRun : Iterate(st, "none")
    /\ UNCHANGED src

InitOfRun ==
    /\ InitLoop({None}, {NoSource})
    /\ InitRun(Urls)
    /\ InitSession({NoFile})
    /\ InitCall({NoArgs})

NextRun ==
    \/ ExtractNoteId
    \/ CheckCookie
    \/ GetNoteInfo
    \/ OpenBrowser
    \/ IterationRun
    \/ DomFallback
    \/ ExtractCommentsFinish

SpecRun == InitOfRun /\ [][NextRun]_vars

(* ------------- SpecSession: the CookieManager of one process ------------ *)

\* the cookies the browser profile or the interactive login can yield
Cookies == 1..MaxCookie

\* what one run of the body of get_cookie_automatically meets:
\*   cache_valid   _validate_cookie of the cached cookie
\*   extraction    _extract_cookie_from_session returns None ("none"), a cookie
\*                 that fails validation ("invalid"), one that passes ("valid"),
\*                 or raises BrowserError ("raise")
\*   interactive   _interactive_cookie_acquisition returns None, a cookie that
\*                 fails validation, or one that passes
\*   cookie        the cookie a source yields
\* (the interactive flow is given an outcome only where the extraction leaves
\* room for it)
AttemptInputs ==
    {in \in [cache_valid : BOOLEAN, extraction : {"none", "invalid", "valid", "raise"},
             interactive : {"none", "invalid", "valid"}, cookie : Cookies] :
        in.extraction \in {"valid", "raise"} => in.interactive = "none"}

\* the body of _load_cached_cookie at time t: None for no file or a file saved
\* more than max_age_hours ago, else the cookie of the file
load_cached_cookie(file, t) ==
    IF ~file.exists THEN None
    ELSE IF (t - file.saved) * TickHours > max_age_hours THEN None
    ELSE file.cookie

\* TTLCache.get at time t: None for no entry or an entry set more than ttl ago
cache_get(entry, t) ==
    IF ~entry.present THEN None
    ELSE IF (t - entry.set_at) * TickHours > memo_ttl_hours THEN None
    ELSE entry.value

\* the wrapper of cached_with_ttl around _load_cached_cookie: a hit that is not
\* None is returned, anything else calls the body and stores its result
\* (saved remembers the save time of the file the value was read from)
cached_load(file, entry, t) ==
    LET hit == cache_get(entry, t)
    IN  IF hit # None THEN [value |-> hit, memo |-> entry]
        ELSE [value |-> load_cached_cookie(file, t),
              memo  |-> [present |-> TRUE, value |-> load_cached_cookie(file, t),
                         set_at |-> t, saved |-> file.saved]]

\* clear_cache leaves the TTL cache around _load_cached_cookie alone
cache_after_clear(entry) == entry

\* with_error_handling(fallback_value=None) around _extract_cookie_from_session:
\* the fallback None is not returned, the exception is raised again
extraction_raises(extraction) == extraction = "raise"

\* the body of get_cookie_automatically at time t: what it returns or that it
\* raises, the sources it tried with their outcomes, and the file and the TTL
\* cache it leaves; _save_cookie_to_cache writes the file and empties the cache
attempt(file, entry, t, in) ==
    LET loaded == cached_load(file, entry, t)
        cached == loaded.value # None /\ loaded.value # 0
        from_cache ==
            [src |-> "cache",
             out |-> IF ~cached THEN "none" ELSE IF in.cache_valid THEN "valid" ELSE "invalid"]
        from_profile == [src |-> "profile", out |-> in.extraction]
        from_login == [src |-> "interactive", out |-> in.interactive]
        saved_file == [exists |-> TRUE, cookie |-> in.cookie, saved |-> t]
    IN  IF cached /\ in.cache_valid
        THEN [raised |-> FALSE, cookie |-> loaded.value, is_new |-> FALSE,
              tried |-> <<from_cache>>, file |-> file, memo |-> loaded.memo,
              saved |-> loaded.memo.saved]
        ELSE IF extraction_raises(in.extraction)
        THEN [raised |-> TRUE, cookie |-> 0, is_new |-> FALSE,
              tried |-> <<from_cache, from_profile>>, file |-> file, memo |-> loaded.memo,
              saved |-> 0]
        ELSE IF in.extraction = "valid"
        THEN [raised |-> FALSE, cookie |-> in.cookie, is_new |-> TRUE,
              tried |-> <<from_cache, from_profile>>, file |-> saved_file, memo |-> NoMemo,
              saved |-> t]
        ELSE IF in.interactive = "valid"
        THEN [raised |-> FALSE, cookie |-> in.cookie, is_new |-> TRUE,
              tried |-> <<from_cache, from_profile, from_login>>, file |-> saved_file,
              memo |-> NoMemo, saved |-> t]
        ELSE [raised |-> TRUE, cookie |-> 0, is_new |-> FALSE,
              tried |-> <<from_cache, from_profile, from_login>>, file |-> file,
              memo |-> loaded.memo, saved |-> 0]

\* _execute_with_retry_async from attempt n on: the first attempt that returns,
\* or the fallback ("", False) after max_attempts attempts that raised
RECURSIVE execute_with_retry(_, _, _, _, _, _)
execute_with_retry(file, entry, t, ins, n, tried) ==
    IF n > max_attempts
    THEN [cookie |-> 0, is_new |-> FALSE, tried |-> tried, file |-> file, memo |-> entry,
          saved |-> 0]
    ELSE LET a == attempt(file, entry, t, Head(ins))
         IN  IF a.raised
             THEN execute_with_retry(a.file, a.memo, t, Tail(ins), n + 1, tried \o a.tried)
             ELSE [cookie |-> a.cookie, is_new |-> a.is_new, tried |-> tried \o a.tried,
                   file |-> a.file, memo |-> a.memo, saved |-> a.saved]

\* what the attempts from attempt n on can meet, one input for each attempt
\* that is made
RECURSIVE RetryInputs(_, _, _, _)
RetryInputs(file, entry, t, n) ==
    IF n > max_attempts THEN {<<>>}
    ELSE UNION {LET a == attempt(file, entry, t, in)
                IN  IF a.raised
                    THEN {<<in>> \o rest : rest \in RetryInputs(a.file, a.memo, t, n + 1)}
                    ELSE {<<in>>} : in \in AttemptInputs}

\* get_cookie_automatically, decorated
GetCookieAutomatically ==
    /\ \E ins \in RetryInputs(cookie_file, memo, now, 1) :
          LET out == execute_with_retry(cookie_file, memo, now, ins, 1, <<>>)
          IN  /\ cookie_file' = out.file
              /\ memo' = out.memo
              /\ last' = [cookie |-> out.cookie, is_new |-> out.is_new, tried |-> out.tried,
                          age |-> IF out.cookie # 0 THEN now - out.saved ELSE 0,
                          after_clear |-> cleared]
    /\ cleared' = FALSE
    /\ UNCHANGED <<pc, max_comments, page_count, all_comments, reason, load_more_calls,
                   snap, repeated, raw_comments, normalized_comments, result, src,
                   runVars, callbacks, now, callVars>>

\* clear_cache: the file is removed
ClearCache ==
    /\ cookie_file' = NoFile
    /\ memo' = cache_after_clear(memo)
    /\ cleared' = TRUE
    /\ UNCHANGED <<pc, max_comments, page_count, all_comments, reason, load_more_calls,
                   snap, repeated, raw_comments, normalized_comments, result, src,
                   runVars, callbacks, now, last, callVars>>

\* TickHours hours pass
Tick ==
    /\ now < MaxClock
    /\ now' = now + 1
    /\ UNCHANGED <<pc, max_comments, page_count, all_comments, reason, load_more_calls,
                   snap, repeated, raw_comments, normalized_comments, result, src,
                   runVars, callbacks, cookie_file, memo, cleared, last, callVars>>

\* a fresh process; the file, if any, was saved by an earlier one
InitOfSession ==
    /\ InitLoop({None}, {NoSource})
    /\ InitRun({<<>>})
    /\ InitSession({NoFile} \cup {[exists |-> TRUE, cookie |-> c, saved |-> 0] : c \in Cookies})
    /\ InitCall({NoArgs})

NextSession ==
    \/ GetCookieAutomatically
    \/ ClearCache
    \/ Tick

SpecSession == InitOfSession /\ [][NextSession]_vars

(* ------------ SpecValidate: _validate_cookie on one cookie string ------- *)

\* everything but the call variables stays as it is
CallFrame ==
    UNCHANGED <<pc, max_comments, page_count, all_comments, reason, load_more_calls,
                snap, repeated, raw_comments, normalized_comments, result, src,
                runVars, callbacks, sessionVars, args>>

\* login_indicators of _check_login_status
login_indicators == {"[data-v-*] .user-info", ".user-avatar", ".login-box .user",
                     "[class*=avatar]"}

\* the URL indicators of _check_login_status
url_indicators == {"/user/", "/profile/", "/personal"}

\* key_cookie_names of _check_login_status
key_cookie_names == {"web_session", "a1", "webId"}

\* cookie names: the key names and one other name
CookieNames == key_cookie_names \cup {"other"}

\* page titles: empty, the home page, a login page of the site, a login page
\* elsewhere, any other page
PageTitles ==
    {[empty |-> TRUE, login |-> FALSE, brand |-> FALSE],
     [empty |-> FALSE, login |-> FALSE, brand |-> TRUE],
     [empty |-> FALSE, login |-> TRUE, brand |-> TRUE],
     [empty |-> FALSE, login |-> TRUE, brand |-> FALSE],
     [empty |-> FALSE, login |-> FALSE, brand |-> FALSE]}

\* what a validation meets: the names of the cookie string (each with a value),
\* at most one selector that finds an element or whose query raises, the part
\* of the URL that matters, at most one cookie the site sets by itself (empty or
\* not), the title, and the call that raises, if any
ValidateInputs ==
    [injected : SUBSET CookieNames,
     selector : {"none"} \cup login_indicators,
     selector_raises : BOOLEAN,
     url : {"/"} \cup url_indicators,
     site_cookie : {"none"} \cup CookieNames,
     site_cookie_empty : BOOLEAN,
     title : PageTitles,
     raises : {"none", "goto", "cookies", "title"}]

\* page.context.cookies(): name -> whether the value is non-empty
context_cookies(in) ==
    [n \in in.injected \cup (IF in.site_cookie = "none" THEN {} ELSE {in.site_cookie}) |->
        n \in in.injected \/ ~in.site_cookie_empty]

\* method 1 of _check_login_status: a selector finds an element (a query that
\* raises is skipped)
element_found(in) == in.selector # "none" /\ ~in.selector_raises

\* method 2: the URL holds an indicator
url_indicates_user(in) == in.url \in url_indicators

\* method 3: a key cookie with a non-empty value
key_cookie_set(in) ==
    \E n \in DOMAIN context_cookies(in) : n \in key_cookie_names /\ context_cookies(in)[n]

\* method 4: title and '登录' not in title and '小红书' in title
title_indicates_login(in) == ~in.title.empty /\ ~in.title.login /\ in.title.brand

\* _check_login_status: the four methods in order; an exception gives False
check_login_status(in) ==
    IF element_found(in) THEN TRUE
    ELSE IF url_indicates_user(in) THEN TRUE
    ELSE IF in.raises = "cookies" THEN FALSE
    ELSE IF key_cookie_set(in) THEN TRUE
    ELSE IF in.raises = "title" THEN FALSE
    ELSE title_indicates_login(in)

\* _validate_cookie: False for an empty string and for any exception
validate_cookie(in) ==
    IF in.injected = {} THEN FALSE
    ELSE IF in.raises = "goto" THEN FALSE
    ELSE check_login_status(in)

ValidateCookie ==
    /\ ~ret.done
    /\ ret' = [done |-> TRUE, value |-> validate_cookie(args), raised |-> FALSE]
    /\ CallFrame

InitValidate ==
    /\ InitLoop({None}, {NoSource})
    /\ InitRun({<<>>})
    /\ InitSession({NoFile})
    /\ InitCall(ValidateInputs)

NextValidate == ValidateCookie

SpecValidate == InitValidate /\ [][NextValidate]_vars

(* ------------- SpecRetry: _execute_with_retry_async on its own ---------- *)

\* base_delay of RetryConfig: its default 1.0 and the 2.0 of get_cookie_automatically
base_delays == {1, 2}

\* a wrapped function and its configuration: max_attempts, base_delay, the
\* defaults max_delay = 60.0 and exponential_base = 2.0, whether a fallback
\* value was given, and for each attempt whether the function raises
RetryCalls ==
    UNION {[max_attempts : {n}, base_delay : base_delays, max_delay : {60},
            exponential_base : {2}, has_fallback : BOOLEAN, raises : [1..n -> BOOLEAN]] :
           n \in 1..MaxRetryAttempts}

\* b ** n
RECURSIVE power(_, _)
power(b, n) == IF n = 0 THEN 1 ELSE b * power(b, n - 1)

\* the delay without the cap of max_delay
retry_delay_uncapped(cfg, n) == cfg.base_delay * power(cfg.exponential_base, n)

\* min(base_delay * (exponential_base ** n), max_delay), n counted from 0
retry_delay(cfg, n) ==
    Min(cfg.base_delay * power(cfg.exponential_base, n), cfg.max_delay)

\* the call has begun: no attempt made, no sleep
RetryBegun == [done |-> FALSE, calls |-> 0, waits |-> <<>>, value |-> "pending"]

\* one pass of the for loop: the function is awaited; its result is returned,
\* or its exception is handled, followed by a sleep unless this was the last
\* attempt, after which the fallback is returned or the exception raised
RetryAttempt ==
    /\ ~ret.done
    /\ LET n == ret.calls
       IN  IF ~args.raises[n + 1]
           THEN ret' = [ret EXCEPT !.done = TRUE, !.calls = n + 1, !.value = "result"]
           ELSE IF n < args.max_attempts - 1
           THEN ret' = [ret EXCEPT !.calls = n + 1,
                                   !.waits = Append(@, retry_delay(args, n))]
           ELSE ret' = [ret EXCEPT !.done = TRUE, !.calls = n + 1,
                                   !.value = IF args.has_fallback THEN "fallback"
                                             ELSE "raise"]
    /\ CallFrame

InitRetry ==
    /\ InitLoop({None}, {NoSource})
    /\ InitRun({<<>>})
    /\ InitSession({NoFile})
    /\ args \in RetryCalls
    /\ ret = RetryBegun

NextRetry == RetryAttempt

SpecRetry == InitRetry /\ [][NextRetry]_vars

(* -------- SpecInteractive: _interactive_cookie_acquisition on its own --- *)

\* the loop bound without the division by the interval
max_polls_undivided == max_wait_time

\* range(max_wait_time // check_interval)
max_polls == max_wait_time \div check_interval

\* the browser is open on the home page: no poll yet, the context open
InteractiveBegun ==
    [done |-> FALSE, polls |-> <<>>, closed |-> FALSE, value |-> "pending"]

\* one pass of the polling loop, followed, when the login is detected or the
\* passes are used up, by the rest of the function: the cookies are read and
\* the context closed, or the timeout is reported and the context closed; an
\* exception (the window was closed, say) is caught, None is returned and the
\* context goes down with Playwright
InteractivePoll ==
    /\ ~ret.done
    /\ \E outcome \in {"logged_in", "waiting", "raises"} :
          LET polled == Append(ret.polls, outcome = "logged_in")
          IN  IF outcome = "raises"
              THEN ret' = [ret EXCEPT !.done = TRUE, !.closed = TRUE, !.value = "None"]
              ELSE IF outcome = "logged_in"
              THEN ret' = [done |-> TRUE, polls |-> polled, closed |-> TRUE,
                           value |-> "cookie_string"]
              ELSE IF Len(polled) < max_polls
              THEN ret' = [ret EXCEPT !.polls = polled]
              ELSE ret' = [done |-> TRUE, polls |-> polled, closed |-> TRUE,
                           value |-> "None"]
    /\ CallFrame

InitInteractive ==
    /\ InitLoop({None}, {NoSource})
    /\ InitRun({<<>>})
    /\ InitSession({NoFile})
    /\ args = NoArgs
    /\ ret = InteractiveBegun

NextInteractive == InteractivePoll

SpecInteractive == InitInteractive /\ [][NextInteractive]_vars

(* -------- SpecSave: the save loop of extract_comments ------------------- *)

\* what session.get does for one image: status 200 and the content written,
\* another status, or an exception in the transfer
ImageOutcomes == {"ok", "status", "raises"}

\* a normalized comment with everything that can go wrong while it is saved:
\* user_dir.mkdir, the write of the comment files, the progress callback
SavedComments ==
    [nickname : 1..MaxNickname,
     images   : SeqsUpTo(ImageOutcomes, MaxImages),
     fails    : {"none", "mkdir", "write", "callback"}]

\* the images attempted when the loop stops at the first failure
attempted_images_until_failure(images) ==
    LET bad == {k \in DOMAIN images : images[k] # "ok"}
    IN  IF bad = {} THEN images
        ELSE SubSeq(images, 1, CHOOSE k \in bad : \A j \in bad : k <= j)

\* for i, url in enumerate(image_urls, 1): every url is attempted, an exception
\* being caught inside the loop
attempted_images(images) == images

\* download_image: True only for status 200, False for another status and for
\* an exception
download_image(outcome) == outcome = "ok"

\* user_save_path: the comment's directory is its nickname, the filename is
\* built from nickname, time, content and the index of the image
user_save_path(c, i) == [dir |-> c.nickname, index |-> i]

\* download_comment_images: the transfers issued (with whether a file was
\* already at the destination), and the paths downloaded
download_comment_images(c, files) ==
    LET tried == attempted_images(c.images)
        fetch(i) == [path |-> user_save_path(c, i),
                     existed |-> user_save_path(c, i) \in files,
                     success |-> download_image(tried[i])]
        issued == [i \in DOMAIN tried |-> fetch(i)]
        good == SelectSeq(issued, LAMBDA f : f.success)
    IN  [fetches |-> issued,
         downloaded_images |-> [k \in DOMAIN good |-> good[k].path]]

\* the body of the save loop for one comment: user_dir.mkdir, then
\* save_comment_content (images, the two files, the callback); an exception
\* before the callback skips it
save_comment_content(c, has_callback, files) ==
    LET got == download_comment_images(c, files)
        stored == files \cup {got.fetches[k].path : k \in {j \in DOMAIN got.fetches : got.fetches[j].success}}
    IN  IF c.fails = "mkdir"
        THEN [comment |-> c, fetches |-> <<>>, saved |-> FALSE, calls |-> <<>>, files |-> files]
        ELSE IF c.fails = "write"
        THEN [comment |-> c, fetches |-> got.fetches, saved |-> FALSE, calls |-> <<>>, files |-> stored]
        ELSE [comment |-> c, fetches |-> got.fetches, saved |-> TRUE,
              calls |-> IF has_callback
                        THEN <<[downloaded_images |-> got.downloaded_images,
                                raised |-> c.fails = "callback"]>>
                        ELSE <<>>,
              files |-> stored]

\* nothing saved yet; progress_callback is set or is None
SaveBegun(has_callback) ==
    [done |-> FALSE, i |-> 0, has_callback |-> has_callback, files |-> {},
     last |-> [none |-> TRUE]]

\* one pass of 'for i, comment in enumerate(normalized_comments)'
SaveComment ==
    /\ ~ret.done
    /\ ret.i < MaxSaved
    /\ \E c \in SavedComments :
          LET out == save_comment_content(c, ret.has_callback, ret.files)
          IN  ret' = [ret EXCEPT !.i = ret.i + 1, !.files = out.files, !.last = out]
    /\ CallFrame

\* the loop is over
SaveEnd ==
    /\ ~ret.done
    /\ ret.i > 0
    /\ ret' = [ret EXCEPT !.done = TRUE]
    /\ CallFrame

InitSave ==
    /\ InitLoop({None}, {NoSource})
    /\ InitRun({<<>>})
    /\ InitSession({NoFile})
    /\ args = NoArgs
    /\ \E has_callback \in BOOLEAN : ret = SaveBegun(has_callback)

NextSave == SaveComment \/ SaveEnd

SpecSave == InitSave /\ [][NextSave]_vars

(* -------- SpecState: the page state as a tree ---------------------------- *)

\* A value of the page state is a record with a field kind: a dict carries its
\* keys as further fields, a list its elements in items, anything else is a
\* scalar. depth is the number of levels between the root and a comment record.

\* the keys recursive_search_comments treats as comment containers
comment_keys == {"comments", "comment", "commentList", "replies", "list"}

\* the keys of the dicts below, in the order the page lists them
KeyOrder == <<"note", "noteDetailMap", "T", "O", "comments", "list", "data">>

\* a comment record of the page state, with an id and a text
Leaf(id, depth) == [kind |-> "dict", id |-> id, content |-> SomeText, depth |-> depth]

\* an element that is not a dict (null, a string)
Junk == [kind |-> "scalar"]

\* one level of nesting: a dict with the one key, or a list of one element
Wrap(step, child) ==
    IF step = "[]" THEN [kind |-> "list", items |-> <<child>>]
    ELSE ("kind" :> "dict") @@ (step :> child)

RECURSIVE Nested(_, _)
Nested(steps, leaf) ==
    IF steps = <<>> THEN leaf ELSE Wrap(Head(steps), Nested(Tail(steps), leaf))

\* a state that holds one comment record under up to MaxNest levels
Chains ==
    {Nested(steps, Leaf(1, Len(steps))) :
        steps \in {w \in SeqsUpTo({"data", "comments", "list", "[]"}, MaxNest) :
                      w # <<>> /\ w[1] # "[]"}}

\* noteDetailMap[id]: the comments of one note
NoteEntry(items) ==
    [kind |-> "dict",
     comments |-> [kind |-> "dict", list |-> [kind |-> "list", items |-> items]]]

\* the page state of a note page: the target T with its list, or without an
\* entry, and possibly another note O with a comment of its own
PageStates ==
    LET lists == SeqsUpTo({Leaf(1, 6), Junk}, MaxListed)
        target == {<<>>} \cup {("T" :> NoteEntry(l)) : l \in lists}
        other == {<<>>, ("O" :> NoteEntry(<<>>)), ("O" :> NoteEntry(<<Leaf(2, 6)>>))}
    IN  {[kind |-> "dict",
          note |-> [kind |-> "dict",
                    noteDetailMap |-> ("kind" :> "dict") @@ t @@ o]] :
            t \in target, o \in other}

RECURSIVE Flatten(_)
Flatten(seqs) == IF seqs = <<>> THEN <<>> ELSE Head(seqs) \o Flatten(Tail(seqs))

\* for item in value: the elements of a list; the keys of a dict, which are
\* strings and look like nothing
iterate(value) == IF value.kind = "list" THEN value.items ELSE <<>>

\* recursive_search_comments(data, max_depth)
RECURSIVE recursive_search_comments_in(_, _)
recursive_search_comments_in(data, max_depth) ==
    IF max_depth <= 0 THEN <<>>
    ELSE IF data.kind = "dict"
    THEN IF looks_like_comment_data(data) THEN <<data>>
         ELSE LET keys == SelectSeq(KeyOrder, LAMBDA k : k \in DOMAIN data)
                  under(key) ==
                      LET value == data[key]
                      IN  IF key \in comment_keys
                          THEN IF value.kind = "list"
                               THEN SelectSeq(value.items, looks_like_comment_data)
                               ELSE IF value.kind = "dict" /\ "list" \in DOMAIN value
                               THEN SelectSeq(iterate(value.list), looks_like_comment_data)
                               ELSE <<>>
                          ELSE recursive_search_comments_in(value, max_depth - 1)
              IN  Flatten([i \in DOMAIN keys |-> under(keys[i])])
    ELSE IF data.kind = "list"
    THEN Flatten([i \in DOMAIN data.items |->
                     IF looks_like_comment_data(data.items[i]) THEN <<data.items[i]>>
                     ELSE recursive_search_comments_in(data.items[i], max_depth - 1)])
    ELSE <<>>

\* comment_list of extract_comments_from_state: noteDetailMap[note_id].comments.list,
\* each get with its default
comment_list(initial_state, note_id) ==
    LET empty == [kind |-> "dict"]
        none == [kind |-> "list", items |-> <<>>]
        note_detail_map == Get(Get(initial_state, "note", empty), "noteDetailMap", empty)
    IN  IF note_id \in DOMAIN note_detail_map
        THEN Get(Get(note_detail_map[note_id], "comments", empty), "list", none).items
        ELSE <<>>

\* the records process_raw_comment returns for the list: an element that is not
\* a dict makes raw_comment.get raise, None is returned and the element left out
processed_comments(raw_list) ==
    LET dicts == SelectSeq(raw_list, LAMBDA raw : raw.kind = "dict")
    IN  [i \in DOMAIN dicts |-> process_raw_comment(dicts[i])]

\* extract_comments_from_state with the fallback decided by the raw list
extract_comments_from_initial_state_by_list(initial_state, note_id) ==
    LET comments == processed_comments(comment_list(initial_state, note_id))
        searched == comment_list(initial_state, note_id) = <<>>
    IN  [value |-> IF searched THEN recursive_search_comments_in(initial_state, 5)
                   ELSE comments,
         fallback |-> searched]

\* extract_comments_from_state(initial_state, note_id): the processed list, or
\* the recursive search of the whole state 'if not comments'
extract_comments_from_initial_state(initial_state, note_id) ==
    LET comments == processed_comments(comment_list(initial_state, note_id))
    IN  [value |-> IF comments = <<>> THEN recursive_search_comments_in(initial_state, 5)
                   ELSE comments,
         fallback |-> comments = <<>>]

\* recursive_search_comments(initial_state) called on its own
SearchState ==
    /\ ~ret.done
    /\ ret' = [done |-> TRUE, op |-> "search",
               value |-> recursive_search_comments_in(args.state, 5), fallback |-> TRUE]
    /\ CallFrame

\* extract_comments_from_state(initial_state, note_id)
ExtractFromState ==
    /\ ~ret.done
    /\ LET out == extract_comments_from_initial_state(args.state, args.note_id)
       IN  ret' = [done |-> TRUE, op |-> "extract", value |-> out.value,
                   fallback |-> out.fallback]
    /\ CallFrame

InitState ==
    /\ InitLoop({None}, {NoSource})
    /\ InitRun({<<>>})
    /\ InitSession({NoFile})
    /\ args \in [state : Chains \cup PageStates, note_id : {"T"}]
    /\ ret = NoRet

NextState == SearchState \/ ExtractFromState

SpecState == InitState /\ [][NextState]_vars

(* ================================ claims =============================== *)

\* the run has left the pagination loop
LoopEnded == reason # ""

\* C1: with a quota set, the number of collected comments never exceeds the
\* quota, in any state of a run against an arbitrary page.
C1_QuotaNeverExceeded ==
    Truthy(max_comments) => Len(all_comments) <= max_comments

\* C1 witness: a batch of two new comments met the quota 1 and was cut to one.
C1_Witness ==
    /\ pc = "paginated" /\ reason = "quota" /\ max_comments = 1
    /\ Len(extract_comments_from_state(snap)) = 2
    /\ Len(all_comments) = 1

C3_BoundedIterations ==
    /\ page_count <= max_pages
    /\ load_more_calls <= max_pages
    /\ (pc = "loop" => page_count < max_pages)

\* C3 witness: a run that ended on the iteration cap after max_pages
\* iterations and max_pages load-more calls.
C3_Witness ==
    /\ reason = "max_iterations" /\ page_count = max_pages
    /\ load_more_calls = max_pages

\* C4: an iteration that captures the same snapshot as the iteration before
\* it leaves the collected list as it was.
C4_RepeatedSnapshotAddsNothing ==
    [][(pc = "loop" /\ repeated') => all_comments' = all_comments]_vars

\* C4 witness: a second capture of a snapshot whose comments were collected
\* by the iteration before.
C4_Witness ==
    /\ repeated /\ page_count >= 2 /\ snap # NoSnapshot
    /\ extract_comments_from_state(snap) # <<>>
    /\ all_comments # <<>>

\* C5 as stated: no two collected comments have the same id.
C5_Original ==
    \A i, j \in DOMAIN all_comments :
        i # j => Get(all_comments[i], "id", NoId) # Get(all_comments[j], "id", NoId)

\* C6 as stated: an iteration whose batch holds no id that was not seen
\* before (an empty batch included), with the quota not reached, ends the run
\* as no_progress without a load-more call.
C6_Original ==
    [][(/\ pc = "loop"
        /\ snap' # NoSnapshot
        /\ ~snap'.null
        /\ reason' # "error"
        /\ filter_new_comments(extract_comments_from_state(snap'), all_comments) = <<>>
        /\ ~quota_reached(all_comments, max_comments))
       => (reason' = "no_progress" /\ load_more_calls' = load_more_calls)]_vars

\* C7 as stated: an iteration that added comments without reaching the quota
\* ends the run as exhausted when hasMore is false and the page is not
\* mid-load; with hasMore true it does not end the run as exhausted but calls
\* load-more.
C7_Original ==
    [][(/\ pc = "loop"
        /\ Len(all_comments') > Len(all_comments)
        /\ reason' # "quota")
       => /\ (~snap'.hasMore /\ ~snap'.loading) => reason' = "exhausted"
          /\ snap'.hasMore =>
                (reason' # "exhausted" /\ load_more_calls' = load_more_calls + 1)]_vars

C9_LaterErrorKeepsCollected ==
    [][(pc = "loop" /\ reason' = "error" /\ page_count' > 1)
       => (pc' = "paginated" /\ all_comments' = all_comments)]_vars

\* C9 witness: the loop was left on an exception after the first iteration
\* with comments collected.
C9_Witness ==
    /\ pc = "paginated" /\ reason = "error" /\ page_count > 1
    /\ all_comments # <<>>

\* C10 as stated: when the first iteration raises, extract_comments returns
\* a failure.
C10_Original ==
    (pc = "done" /\ reason = "error" /\ page_count = 1) => result = "False"

\* what the caller of extract_comments is shown after an exhausted run that
\* found no comment at all: the return value and the saved list
EmptyExhaustedResult ==
    <<"True",
      IF normalize_comment_data(<<>>) = <<>> THEN demo_comments
      ELSE normalize_comment_data(<<>>)>>

\* C11 as stated: a successful result holds only comments taken from the
\* page, and a run that found no comment and ended on an error, an unreadable
\* page state or no progress shows the caller something else than an
\* exhausted run that found no comment.
C11_Original ==
    pc = "done" =>
        /\ result = "True" =>
               \A i \in DOMAIN normalized_comments : normalized_comments[i].id # DemoId
        /\ (raw_comments = <<>> /\ reason \in {"error", "no_state", "no_progress"})
               => <<result, normalized_comments>> # EmptyExhaustedResult

\* the image of the documented 10^12 at the scale of NowSec: every epoch-seconds
\* value of a present-day instant lies below it, every epoch-milliseconds value
\* above
EpochMsThreshold == NowSec * 100

\* the documented reading of a number as a time: above the threshold it is
\* milliseconds, otherwise seconds
NumberAsMs(n) == IF n > EpochMsThreshold THEN n ELSE n * MsPerSec

\* the instant, in epoch milliseconds, that a time value denotes
InstantMs(t) ==
    CASE t.k = "int"   -> NumberAsMs(t.v)
      [] t.f = "hours" -> (NowSec - t.v * SecPerHour) * MsPerSec
      [] t.f = "iso"   -> t.v * MsPerSec
      [] t.f = "num"   -> NumberAsMs(t.v)
      [] OTHER         -> NowSec * MsPerSec

\* the time value is epoch seconds, epoch milliseconds, a relative text or an
\* ISO text
DatedForm(t) ==
    \/ t.k = "int" /\ t.v # 0
    \/ t.k = "str" /\ t.f \in {"hours", "iso"}

\* the run completed and returned its list
Completed == pc = "done" /\ result = "True"

\* C12 as stated: the final list of a completed run is ordered by creation
\* time, newest first, whatever forms (epoch seconds, epoch milliseconds,
\* relative or ISO text) the time values of its comments have.
C12_Original ==
    (Completed /\ \A i \in DOMAIN normalized_comments :
                      DatedForm(normalized_comments[i].create_time))
        => \A i, j \in DOMAIN normalized_comments :
               i < j => InstantMs(normalized_comments[i].create_time)
                            >= InstantMs(normalized_comments[j].create_time)

\* C13 as stated: when the quota ends the loop on a page of dated comments,
\* no comment of the page that was left out is newer than a comment that was
\* kept.
C13_Original ==
    (pc = "paginated" /\ reason = "quota")
        => LET seen == extract_comments_from_state(snap)
           IN  (\A i \in DOMAIN seen : DatedForm(sort_key(seen[i])))
                   => \A i \in DOMAIN seen, j \in DOMAIN all_comments :
                          (\A k \in DOMAIN all_comments : all_comments[k] # seen[i])
                              => InstantMs(sort_key(seen[i]))
                                     <= InstantMs(sort_key(all_comments[j]))

\* C14 as stated (its first part): every comment of the final list of a
\* completed run has a non-empty id.
C14_Original ==
    Completed => \A i \in DOMAIN normalized_comments : normalized_comments[i].id # NoId

\* C15 as stated: every comment of the final list of a completed run carries
\* its creation time as an integer of epoch milliseconds, never as a text and
\* never as epoch seconds.
C15_Original ==
    Completed => \A i \in DOMAIN normalized_comments :
                     /\ normalized_comments[i].create_time.k = "int"
                     /\ normalized_comments[i].create_time.v > EpochMsThreshold

\* the known path shapes: explore/<hex-id>, discovery/item/<hex-id>, item/<hex-id>
KnownShapes ==
    {<<"explore/", "h">>, <<"discovery/", "item/", "h">>, <<"item/", "h">>}

\* the URL holds one of the known shapes
HasKnownShape(url) ==
    \E shape \in KnownShapes, p \in 1..Len(url) :
        /\ p + Len(shape) - 1 <= Len(url)
        /\ SubSeq(url, p, p + Len(shape) - 1) = shape

\* C16: for a URL that holds none of the known shapes, extract_comments does
\* nothing but fail: at every moment of the run no cookie has been asked for,
\* no browser has gone to the page, no iteration has run and no callback has
\* been invoked, and once the call has acted it has returned False.
C16_InvalidUrlFailsFirst ==
    ~HasKnownShape(note_url)
        => /\ ensure_calls = 0 /\ navigations = 0 /\ page_count = 0 /\ callbacks = 0
           /\ pc = "start" \/ (pc = "done" /\ result = "False")

\* C16 witness: the URL 'item/' followed by a character that is no hex digit was
\* rejected.
C16_Witness ==
    /\ note_url = <<"item/", "x">> /\ ~HasKnownShape(note_url)
    /\ pc = "done" /\ result = "False" /\ ensure_calls = 0

ReturnedCached == last.cookie # 0 /\ ~last.is_new

\* C18 as stated: in what the latest get_cookie_automatically tried, nothing
\* follows a source that yielded a valid session, the interactive flow comes
\* only after the cache and the profile, and a call that reported failure has
\* attempted the interactive flow.
C18_Original ==
    /\ \A i, j \in DOMAIN last.tried :
           (i < j /\ last.tried[i].out = "valid") => last.tried[j].src # "interactive"
    /\ \A j \in DOMAIN last.tried :
           last.tried[j].src = "interactive"
               => (j > 2 /\ last.tried[j - 2].src = "cache" /\ last.tried[j - 1].src = "profile")
    /\ (last.tried # <<>> /\ last.cookie = 0)
           => \E j \in DOMAIN last.tried : last.tried[j].src = "interactive"

\* C19 as stated: a cookie that get_cookie_automatically returns from the cache
\* was saved at most 24 hours before the call.
C19_Original ==
    ReturnedCached => last.age * TickHours <= max_age_hours

\* C20 as stated: the first get_cookie_automatically after clear_cache does not
\* return a cookie from the cache.
C20_Original ==
    last.after_clear => ~ReturnedCached

\* C21 as stated: _validate_cookie returns True only if a logged-in marker is
\* present, the URL indicates a user context or a key cookie has a non-empty
\* value; a cookie string without any key cookie validates False; and no
\* exception propagates.
C21_Original ==
    ret.done =>
        /\ ~ret.raised
        /\ ret.value => (element_found(args) \/ url_indicates_user(args) \/ key_cookie_set(args))
        /\ args.injected \cap key_cookie_names = {} => ~ret.value

\* C22: a call wrapped with a retry configuration makes at most max_attempts
\* attempts, every attempt before the latest one raised, it has slept once
\* after each attempt but the latest one, the k-th sleep lasting
\* min(base_delay * 2^(k-1), 60), and it ends with the result of the first
\* attempt that does not raise or, all attempts having raised and a fallback
\* being given, with the fallback instead of an exception.
C22_RetryBoundedBackoff ==
    /\ ret.calls <= args.max_attempts
    /\ \A k \in 1..(ret.calls - 1) : args.raises[k]
    /\ Len(ret.waits) = IF ret.done \/ ret.calls = 0 THEN Max(ret.calls - 1, 0) ELSE ret.calls
    /\ \A k \in DOMAIN ret.waits : ret.waits[k] = Min(args.base_delay * power(2, k - 1), 60)
    /\ ret.done =>
           /\ ret.value = "result" <=> ~args.raises[ret.calls]
           /\ (ret.value # "result" /\ args.has_fallback)
                  => (ret.value = "fallback" /\ ret.calls = args.max_attempts)

\* C22 witness: seven attempts raised; the sixth sleep was cut to 60 and the
\* fallback came back without a seventh sleep.
C22_Witness ==
    /\ ret.done /\ ret.value = "fallback" /\ ret.calls = 7 /\ args.base_delay = 2
    /\ Len(ret.waits) = 6 /\ ret.waits[5] = 32 /\ ret.waits[6] = 60

\* C23: the interactive flow polls at most 300/5 = 60 times; a poll that
\* detects the login is the latest one and ends the flow with the cookie string;
\* the flow ends without a cookie only when 60 polls detected nothing (or a
\* call raised); and a flow that has ended has closed its browser context.
C23_InteractiveTerminates ==
    /\ Len(ret.polls) <= 60
    /\ \A k \in DOMAIN ret.polls : ret.polls[k] => (k = Len(ret.polls) /\ ret.done)
    /\ ret.done =>
           /\ ret.closed
           /\ ret.value = "cookie_string" <=> (ret.polls # <<>> /\ ret.polls[Len(ret.polls)])
           /\ (ret.value = "None" /\ Len(ret.polls) < 60) => ~(\E k \in DOMAIN ret.polls : ret.polls[k])
    /\ ~ret.done => (ret.value = "pending" /\ ~ret.closed /\ Len(ret.polls) < 60)

\* C23 witness: 60 polls detected nothing and the flow timed out with its
\* context closed.
C23_Witness ==
    /\ ret.done /\ ret.value = "None" /\ Len(ret.polls) = 60 /\ ret.closed
    /\ \A k \in DOMAIN ret.polls : ~ret.polls[k]

\* C24 as stated: with a callback set, the comment just handled had the
\* callback invoked exactly once, whatever failed while it was handled.
C24_Original ==
    (ret.i > 0 /\ ret.has_callback) => Len(ret.last.calls) = 1

\* the paths of the images of the comment just handled whose fetch succeeded
FetchedPaths ==
    LET c == ret.last.comment
        ok == SelectSeq([i \in DOMAIN c.images |-> i], LAMBDA i : c.images[i] = "ok")
    IN  [k \in DOMAIN ok |-> user_save_path(c, ok[k])]

\* C25: when nothing but image fetches failed for a comment (the callback may
\* raise once invoked), every image was attempted, the comment record is
\* saved and the callback received the paths of the images fetched.
C25_ImageFailureIsolated ==
    (ret.i > 0 /\ ret.last.comment.fails \in {"none", "callback"}) =>
        /\ Len(ret.last.fetches) = Len(ret.last.comment.images)
        /\ ret.last.saved
        /\ ret.has_callback =>
               /\ Len(ret.last.calls) = 1
               /\ ret.last.calls[1].downloaded_images = FetchedPaths

\* C25 witness: the first of two images failed, the second was fetched and
\* its path alone reached the callback.
C25_Witness ==
    /\ ret.i > 0 /\ ret.has_callback
    /\ ret.last.comment.fails = "none"
    /\ ret.last.comment.images = <<"raises", "ok">>
    /\ Len(ret.last.fetches) = 2
    /\ ret.last.calls[1].downloaded_images = <<user_save_path(ret.last.comment, 2)>>

\* C26 as stated: no transfer is issued for a destination at which a file
\* already exists.
C26_Original ==
    ret.i > 0 => \A k \in DOMAIN ret.last.fetches : ~ret.last.fetches[k].existed

\* C27 as stated: the recursive search returns no record that lies deeper than
\* 5 levels below the root of the state.
C27_Original ==
    (ret.done /\ ret.op = "search") =>
        \A k \in DOMAIN ret.value : ret.value[k].depth <= 5

\* the target's list in the state handed to extract_comments_from_state
PrimaryList == comment_list(args.state, args.note_id)

C29_Original ==
    (ret.done /\ ret.op = "extract" /\ args.state \in PageStates) =>
        \A k \in DOMAIN ret.value :
            \E j \in DOMAIN PrimaryList : Get(PrimaryList[j], "id", NoId) = ret.value[k].id

\* C30: when the state read by an iteration holds no entry for the target
\* under noteDetailMap, check_has_more_comments is false for it, the loop has
\* ended with that iteration and that iteration triggered no load-more; as the
\* first iteration it leaves the run without any load-more at all.
C30_NoTargetEndsRun ==
    (page_count > 0 /\ "hasTarget" \in DOMAIN snap /\ ~snap.null /\ ~snap.hasTarget) =>
        /\ ~check_has_more_comments(snap)
        /\ pc # "loop"
        /\ load_more_calls < page_count
        /\ page_count = 1 => load_more_calls = 0

\* C30 witness: the first iteration found a comment by the recursive search in
\* a state without the target, and the run ended there with no load-more.
C30_Witness ==
    /\ page_count = 1 /\ "hasTarget" \in DOMAIN snap /\ ~snap.null /\ ~snap.hasTarget
    /\ snap.rec # <<>> /\ all_comments # <<>>
    /\ pc # "loop" /\ load_more_calls = 0

====
